---- MODULE Spec2Model ----
(***************************************************************************)
(* PAYE tax calculator: the computation engine of src/src/utils.ts with    *)
(* the bracket tables of constants.ts, driven by a caller that invokes     *)
(* calculateResults.                                                       *)
(*                                                                         *)
(* Numbers.  A JavaScript number is modelled as an exact decimal quantity  *)
(* [w |-> whole naira, f |-> ticks], value w + f/DEN with 0 <= f < DEN     *)
(* (w carries the sign, as with floor).  DEN = 12 * 10^6 makes every       *)
(* quantity the engine derives from an input with two decimals exact:      *)
(* 1% of it, a rate applied to that, and a twelfth of the result.  The     *)
(* two halves keep every intermediate inside TLC's 32-bit integers.        *)
(* Infinity and NaN are values of their own.  Binary floating-point error  *)
(* (about 1e-16 relative) is not modelled.                                 *)
(***************************************************************************)
EXTENDS Integers, Sequences, FiniteSets, TLC

VARIABLES
    LEGACY_BRACKETS,        \* constants.ts: the legacy table (a module-level array)
    REFORM_BRACKETS,        \* constants.ts: the reform table (a module-level array)
    monthlyAmount,          \* first argument of the latest calculateResults call
    additionalDeductions,   \* second argument of the latest call: three texts
    deductions,             \* calculatePAYE's local: parseDeductions(additionalDeductions)
    results,                \* what the latest call returned, NoResults before any call
    calls,                  \* history of the calls made: their arguments, parsed deductions, results
    taxableIncomeArg,       \* calculateTaxByBrackets called on its own: its first argument
    bracketsArg,            \* ... its second argument, "legacy" or "reform", "" before any call
    taxByBrackets,          \* ... and what it returned
    monthlyGrossInput,      \* PayeCalculator.tsx: useState monthlyGross, the text of the salary field
    inputType,              \* PayeCalculator.tsx: "monthly" or "annual"
    showBreakdown,          \* PayeCalculator.tsx: useState showBreakdown
    showScenarios,          \* PayeCalculator.tsx: useState showScenarios
    scenarios,              \* PayeCalculator.tsx: useState scenarios, a list of Scenario
    customScenario,         \* PayeCalculator.tsx: useState customScenario: label, amount, type
    now,                    \* the clock Date.now() reads
    attempts                \* history of handleCalculate's runs: the amount each one parsed

engineVars == <<LEGACY_BRACKETS, REFORM_BRACKETS, monthlyAmount, additionalDeductions,
                deductions, results, calls>>
bracketVars == <<taxableIncomeArg, bracketsArg, taxByBrackets>>
componentVars == <<monthlyGrossInput, inputType, showBreakdown, showScenarios, scenarios,
                   customScenario, now, attempts>>

vars == <<engineVars, bracketVars, componentVars>>

----------------------------------------------------------------------------
(* Exact decimal arithmetic *)

DEN == 12 * 1000000
CENT == DEN \div 100

Norm(w, f) == [w |-> w + (f \div DEN), f |-> f % DEN]
Naira(n) == [w |-> n, f |-> 0]
Money(n, cents) == Norm(n, cents * CENT)
Zero == Naira(0)
Infinity == [inf |-> TRUE]
NaN == [nan |-> TRUE]

IsFinite(a) == a # Infinity /\ a # NaN

Add(a, b) == Norm(a.w + b.w, a.f + b.f)
Sub(a, b) == Norm(a.w - b.w, a.f - b.f)
Neg(a) == Norm(0 - a.w, 0 - a.f)
Times(a, k) == Norm(a.w * k, a.f * k)

\* a < b and a <= b; Infinity is above every finite number
Lt(a, b) ==
    IF a = Infinity THEN FALSE
    ELSE IF b = Infinity THEN TRUE
    ELSE a.w < b.w \/ (a.w = b.w /\ a.f < b.f)
Le(a, b) == a = b \/ Lt(a, b)

\* Math.max, Math.min
MathMax(a, b) == IF Lt(a, b) THEN b ELSE a
MathMin(a, b) == IF Lt(b, a) THEN b ELSE a

Abs(a) == IF Lt(a, Zero) THEN Neg(a) ELSE a

\* a * (p / 100): the product with a factor written in hundredths (0.01, 0.2, 0.07 ...)
Hundredths(a, p) ==
    LET q == a.w \div 100
        r == a.w % 100
    IN  Norm(q * p, r * p * CENT + ((a.f * p) \div 100))

\* a / 12
Twelfth(a) ==
    LET q == a.w \div 12
        r == a.w % 12
    IN  Norm(q, (r * DEN + a.f) \div 12)

\* Round2 with Math.floor in place of Math.round
Round2Down(a) == Norm(a.w, (a.f \div CENT) * CENT)

\* Round2 with the magnitude rounded and the sign put back (ties away from zero)
Round2AwayFromZero(a) ==
    LET m == Abs(a)
        up == IF 2 * (m.f % CENT) >= CENT THEN 1 ELSE 0
        v == Norm(m.w, ((m.f \div CENT) + up) * CENT)
    IN  IF Lt(a, Zero) THEN Neg(v) ELSE v

\* Math.round(a * 100) / 100: Math.round is floor(x + 0.5), so a tie goes up
Round2(a) ==
    LET c == a.f \div CENT
        r == a.f % CENT
        up == IF 2 * r >= CENT THEN 1 ELSE 0
    IN  Norm(a.w, (c + up) * CENT)

\* floor(a / b) for a >= 0, b > 0
RECURSIVE Quotient(_, _)
Quotient(a, b) == IF Lt(a, b) THEN 0 ELSE 1 + Quotient(Sub(a, b), b)

\* floor(a * 10^n / b) with its remainder, for a >= 0, b > 0, by long division
RECURSIVE LongDivision(_, _, _)
LongDivision(a, b, n) ==
    IF n = 0
    THEN LET q == Quotient(a, b) IN [q |-> q, r |-> Sub(a, Times(b, q))]
    ELSE LET prev == LongDivision(a, b, n - 1)
             r10 == Times(prev.r, 10)
             d == Quotient(r10, b)
         IN  [q |-> prev.q * 10 + d, r |-> Sub(r10, Times(b, d))]

\* a / b * 100 for b > 0, cut after six decimals (the model's resolution of a
\* quotient; cutting commutes with the rounding to two decimals that follows)
PercentOf(a, b) ==
    LET micro == LongDivision(Abs(a), b, 8).q
        mag == Norm(micro \div 1000000, (micro % 1000000) * (DEN \div 1000000))
    IN  IF Lt(a, Zero) THEN Neg(mag) ELSE mag

\* a / 10
Tenth(a) ==
    LET q == a.w \div 10
        r == a.w % 10
    IN  Norm(q, (r * DEN + a.f) \div 10)

----------------------------------------------------------------------------
(* Texts are sequences of one-character strings.  parseFloat reads the      *)
(* longest prefix that is a StrDecimalLiteral, after leading white space.  *)

Digits == <<"0", "1", "2", "3", "4", "5", "6", "7", "8", "9">>
IsDigit(c) == \E i \in 1..10 : Digits[i] = c
DigitValue(c) == (CHOOSE i \in 1..10 : Digits[i] = c) - 1
IsWhiteSpace(c) == c \in {" ", "\t", "\n"}

CharAt(text, i) == IF i >= 1 /\ i <= Len(text) THEN text[i] ELSE ""

RECURSIVE SkipWhiteSpace(_, _)
SkipWhiteSpace(text, i) ==
    IF IsWhiteSpace(CharAt(text, i)) THEN SkipWhiteSpace(text, i + 1) ELSE i

\* the index after the run of digits that starts at i
RECURSIVE DigitsEnd(_, _)
DigitsEnd(text, i) ==
    IF IsDigit(CharAt(text, i)) THEN DigitsEnd(text, i + 1) ELSE i

\* the integer written by text[i .. j-1]
RECURSIVE IntegerOf(_, _, _)
IntegerOf(text, i, j) ==
    IF j <= i THEN 0 ELSE IntegerOf(text, i, j - 1) * 10 + DigitValue(text[j - 1])

RECURSIVE Pow10(_)
Pow10(n) == IF n = 0 THEN 1 ELSE 10 * Pow10(n - 1)

\* the ticks written by the fraction digits text[i .. j-1] (digits past the ninth are below a tick)
RECURSIVE FractionOf(_, _, _)
FractionOf(text, i, j) ==
    IF j <= i THEN 0
    ELSE FractionOf(text, i, j - 1)
         + (IF j - i <= 9 THEN (DigitValue(text[j - 1]) * DEN) \div Pow10(j - i) ELSE 0)

RECURSIVE Scale10(_, _)
Scale10(a, e) ==
    IF e = 0 THEN a
    ELSE IF e > 0 THEN Scale10(Times(a, 10), e - 1)
    ELSE Scale10(Tenth(a), e + 1)

StartsWith(text, i, word) ==
    /\ i + Len(word) - 1 <= Len(text)
    /\ \A k \in 1..Len(word) : text[i + k - 1] = word[k]

\* The steps of parseFloat hand what they have read to the next step.
\* The exponent part, read at index e: the factor's power of ten (0 without one)
ExponentAt(text, e, x) ==
    IF CharAt(text, e) \in {"e", "E"} /\ DigitsEnd(text, x) > x
    THEN (IF CharAt(text, e + 1) = "-"
          THEN 0 - IntegerOf(text, x, DigitsEnd(text, x))
          ELSE IntegerOf(text, x, DigitsEnd(text, x)))
    ELSE 0

\* digits m .. intEnd-1, then a fraction up to fracEnd-1 when hasDot, then an exponent
DecimalLiteral(text, m, intEnd, hasDot, fracEnd) ==
    IF intEnd = m /\ (~hasDot \/ fracEnd = intEnd + 1)
    THEN NaN
    ELSE Scale10(Norm(IntegerOf(text, m, intEnd),
                      IF hasDot THEN FractionOf(text, intEnd + 1, fracEnd) ELSE 0),
                 ExponentAt(text, fracEnd,
                            IF CharAt(text, fracEnd + 1) \in {"+", "-"}
                            THEN fracEnd + 2 ELSE fracEnd + 1))

IntegerPart(text, m, intEnd) ==
    DecimalLiteral(text, m, intEnd, CharAt(text, intEnd) = ".",
                   IF CharAt(text, intEnd) = "." THEN DigitsEnd(text, intEnd + 1) ELSE intEnd)

\* the unsigned literal that starts at index m
Unsigned(text, m) ==
    IF StartsWith(text, m, <<"I", "n", "f", "i", "n", "i", "t", "y">>)
    THEN Infinity
    ELSE IntegerPart(text, m, DigitsEnd(text, m))

Negated(x) ==
    IF x = NaN THEN NaN
    ELSE IF x = Infinity THEN [inf |-> TRUE, negative |-> TRUE]
    ELSE Neg(x)

Signed(text, s) ==
    IF CharAt(text, s) = "-" THEN Negated(Unsigned(text, s + 1))
    ELSE IF CharAt(text, s) = "+" THEN Unsigned(text, s + 1)
    ELSE Unsigned(text, s)

parseFloat(text) == Signed(text, SkipWhiteSpace(text, 1))

\* x || 0 for a number x: NaN and 0 are falsy
OrZero(x) == IF x = NaN \/ x = Zero THEN Zero ELSE x

\* parseDeductions with nhf read from the pension text
parseDeductionsCrossed(d) ==
    [pension |-> OrZero(parseFloat(d.pension)),
     nhf |-> OrZero(parseFloat(d.pension)),
     insurance |-> OrZero(parseFloat(d.insurance))]

parseDeductions(d) ==
    [pension |-> OrZero(parseFloat(d.pension)),
     nhf |-> OrZero(parseFloat(d.nhf)),
     insurance |-> OrZero(parseFloat(d.insurance))]

----------------------------------------------------------------------------
(* Number.prototype.toLocaleString() of a whole number (en-US grouping) and *)
(* toFixed(0) of a whole number                                            *)

RECURSIVE NatToString(_)
NatToString(n) ==
    IF n < 10 THEN Digits[n + 1] ELSE NatToString(n \div 10) \o Digits[(n % 10) + 1]

ThreeDigits(n) ==
    Digits[(n \div 100) + 1] \o Digits[((n \div 10) % 10) + 1] \o Digits[(n % 10) + 1]

RECURSIVE Grouped(_)
Grouped(n) ==
    IF n < 1000 THEN NatToString(n)
    ELSE Grouped(n \div 1000) \o "," \o ThreeDigits(n % 1000)

toLocaleString(a) == Grouped(a.w)
toFixed0(n) == NatToString(n)

----------------------------------------------------------------------------
(* constants.ts.  A rate is written in hundredths: rate |-> 7 is 0.07.     *)

LegacyTable ==
    << [limit |-> Naira(300000), rate |-> 7],
       [limit |-> Naira(600000), rate |-> 11],
       [limit |-> Naira(1100000), rate |-> 15],
       [limit |-> Naira(1600000), rate |-> 19],
       [limit |-> Naira(3200000), rate |-> 21],
       [limit |-> Infinity, rate |-> 24] >>

\* ReformTable with the first limit a digit short
ReformTableLowThreshold ==
    << [limit |-> Naira(80000), rate |-> 0],
       [limit |-> Naira(3000000), rate |-> 15],
       [limit |-> Naira(12000000), rate |-> 18],
       [limit |-> Naira(25000000), rate |-> 21],
       [limit |-> Naira(50000000), rate |-> 23],
       [limit |-> Infinity, rate |-> 25] >>

ReformTable ==
    << [limit |-> Naira(800000), rate |-> 0],
       [limit |-> Naira(3000000), rate |-> 15],
       [limit |-> Naira(12000000), rate |-> 18],
       [limit |-> Naira(25000000), rate |-> 21],
       [limit |-> Naira(50000000), rate |-> 23],
       [limit |-> Infinity, rate |-> 25] >>

----------------------------------------------------------------------------
(* utils.ts *)

\* ConsolidatedRelief with Math.min in place of Math.max
ConsolidatedReliefMin(annualGross) == MathMin(Naira(200000), Hundredths(annualGross, 1))

\* Math.max(200_000, annualGross * 0.01)
ConsolidatedRelief(annualGross) == MathMax(Naira(200000), Hundredths(annualGross, 1))

\* AllowancesWith without the Math.max(0, ...) floor
AllowancesUnfloored(annualGross, isReform, totalAdditionalDeductions, consolidatedReliefAllowance) ==
    IF isReform
    THEN [totalAllowances |-> Add(consolidatedReliefAllowance, totalAdditionalDeductions),
          taxableIncome |-> Sub(Sub(annualGross, consolidatedReliefAllowance),
                                totalAdditionalDeductions)]
    ELSE [totalAllowances |->
              Add(Add(consolidatedReliefAllowance, Hundredths(annualGross, 20)),
                  totalAdditionalDeductions),
          taxableIncome |->
              Sub(annualGross,
                  Add(Add(consolidatedReliefAllowance, Hundredths(annualGross, 20)),
                      totalAdditionalDeductions))]

\* AllowancesWith with the Math.max(0, ...) floor in the legacy branch only
AllowancesReformUnfloored(annualGross, isReform, totalAdditionalDeductions, consolidatedReliefAllowance) ==
    IF isReform
    THEN [totalAllowances |-> Add(consolidatedReliefAllowance, totalAdditionalDeductions),
          taxableIncome |-> Sub(Sub(annualGross, consolidatedReliefAllowance),
                                totalAdditionalDeductions)]
    ELSE [totalAllowances |->
              Add(Add(consolidatedReliefAllowance, Hundredths(annualGross, 20)),
                  totalAdditionalDeductions),
          taxableIncome |->
              MathMax(Zero, Sub(annualGross,
                  Add(Add(consolidatedReliefAllowance, Hundredths(annualGross, 20)),
                      totalAdditionalDeductions)))]

AllowancesWith(annualGross, isReform, totalAdditionalDeductions, consolidatedReliefAllowance) ==
    IF isReform
    THEN [totalAllowances |-> Add(consolidatedReliefAllowance, totalAdditionalDeductions),
          taxableIncome |->
              MathMax(Zero, Sub(Sub(annualGross, consolidatedReliefAllowance),
                                totalAdditionalDeductions))]
    ELSE LET totalAllowances ==
                 Add(Add(consolidatedReliefAllowance, Hundredths(annualGross, 20)),
                     totalAdditionalDeductions)
         IN  [totalAllowances |-> totalAllowances,
              taxableIncome |-> MathMax(Zero, Sub(annualGross, totalAllowances))]

calculateAllowances(annualGross, isReform, totalAdditionalDeductions) ==
    AllowancesWith(annualGross, isReform, totalAdditionalDeductions,
                   ConsolidatedRelief(annualGross))

\* one line of the breakdown ("N" stands for the naira sign)
BreakdownLine(previousLimit, bracket, taxableInBracket, taxForBracket) ==
    [range |-> "N" \o toLocaleString(previousLimit) \o " - "
                \o (IF bracket.limit = Infinity THEN "Above"
                    ELSE "N" \o toLocaleString(bracket.limit)),
     rate |-> toFixed0(bracket.rate) \o "%",
     taxableAmount |-> taxableInBracket,
     tax |-> taxForBracket]

\* Pushed with the test on taxForBracket in place of taxableInBracket
PushedWhenTaxed(bracketBreakdown, previousLimit, bracket, taxableInBracket, taxForBracket) ==
    IF Lt(Zero, taxForBracket)
    THEN Append(bracketBreakdown,
                BreakdownLine(previousLimit, bracket, taxableInBracket, taxForBracket))
    ELSE bracketBreakdown

\* Pushed with the new line put first (unshift in place of push)
PushedFirst(bracketBreakdown, previousLimit, bracket, taxableInBracket, taxForBracket) ==
    IF Lt(Zero, taxableInBracket)
    THEN <<BreakdownLine(previousLimit, bracket, taxableInBracket, taxForBracket)>>
             \o bracketBreakdown
    ELSE bracketBreakdown

\* the array after the conditional push
Pushed(bracketBreakdown, previousLimit, bracket, taxableInBracket, taxForBracket) ==
    IF Lt(Zero, taxableInBracket)
    THEN Append(bracketBreakdown,
                BreakdownLine(previousLimit, bracket, taxableInBracket, taxForBracket))
    ELSE bracketBreakdown

\* the for loop of calculateTaxByBrackets from bracket i on; acc is [tax, bracketBreakdown]
RECURSIVE BracketLoop(_, _, _, _, _)
\* BracketStep with the final break taken before tax += taxForBracket
BracketStepBreakEarly(taxableIncome, brackets, i, previousLimit, acc, taxableInBracket) ==
    LET bracket == brackets[i]
        pushed == Pushed(acc.bracketBreakdown, previousLimit, bracket, taxableInBracket,
                         Hundredths(taxableInBracket, bracket.rate))
    IN  IF Le(taxableIncome, bracket.limit)
        THEN [tax |-> acc.tax, bracketBreakdown |-> pushed]
        ELSE BracketLoop(taxableIncome, brackets, i + 1, bracket.limit,
                         [tax |-> Add(acc.tax, Hundredths(taxableInBracket, bracket.rate)),
                          bracketBreakdown |-> pushed])

\* BracketStep with tax = taxForBracket in place of tax += taxForBracket
BracketStepOverwrite(taxableIncome, brackets, i, previousLimit, acc, taxableInBracket) ==
    LET bracket == brackets[i]
        next == [tax |-> Hundredths(taxableInBracket, bracket.rate),
                 bracketBreakdown |->
                     Pushed(acc.bracketBreakdown, previousLimit, bracket, taxableInBracket,
                            Hundredths(taxableInBracket, bracket.rate))]
    IN  IF Le(taxableIncome, bracket.limit)
        THEN next
        ELSE BracketLoop(taxableIncome, brackets, i + 1, bracket.limit, next)

\* BracketStep with previousLimit left as it was (previousLimit = limit missing)
BracketStepKeepsPreviousLimit(taxableIncome, brackets, i, previousLimit, acc, taxableInBracket) ==
    LET bracket == brackets[i]
        next == [tax |-> Add(acc.tax, Hundredths(taxableInBracket, bracket.rate)),
                 bracketBreakdown |->
                     Pushed(acc.bracketBreakdown, previousLimit, bracket, taxableInBracket,
                            Hundredths(taxableInBracket, bracket.rate))]
    IN  IF Le(taxableIncome, bracket.limit)
        THEN next
        ELSE BracketLoop(taxableIncome, brackets, i + 1, previousLimit, next)

\* the body of the loop for bracket i once taxableInBracket is known
BracketStep(taxableIncome, brackets, i, previousLimit, acc, taxableInBracket) ==
    LET bracket == brackets[i]
        next == [tax |-> Add(acc.tax, Hundredths(taxableInBracket, bracket.rate)),
                 bracketBreakdown |->
                     Pushed(acc.bracketBreakdown, previousLimit, bracket, taxableInBracket,
                            Hundredths(taxableInBracket, bracket.rate))]
    IN  IF Le(taxableIncome, bracket.limit)
        THEN next
        ELSE BracketLoop(taxableIncome, brackets, i + 1, bracket.limit, next)

\* BracketLoop with the operands of the subtraction exchanged
BracketLoopSwapped(taxableIncome, brackets, i, previousLimit, acc) ==
    IF i > Len(brackets) \/ Le(taxableIncome, previousLimit)
    THEN acc
    ELSE BracketStep(taxableIncome, brackets, i, previousLimit, acc,
                     Sub(previousLimit, MathMin(taxableIncome, brackets[i].limit)))

BracketLoop(taxableIncome, brackets, i, previousLimit, acc) ==
    IF i > Len(brackets) \/ Le(taxableIncome, previousLimit)
    THEN acc
    ELSE BracketStep(taxableIncome, brackets, i, previousLimit, acc,
                     Sub(MathMin(taxableIncome, brackets[i].limit), previousLimit))

calculateTaxByBrackets(taxableIncome, brackets) ==
    BracketLoop(taxableIncome, brackets, 1, Zero, [tax |-> Zero, bracketBreakdown |-> <<>>])

\* tax / annualGrossIncome * 100 when annualGrossIncome > 0, else 0
EffectiveTaxRate(tax, annualGrossIncome) ==
    IF Lt(Zero, annualGrossIncome) THEN PercentOf(tax, annualGrossIncome) ELSE Zero

\* NetMonthlyPay with the pension added instead of subtracted
NetMonthlyPayPlusPension(monthlyGross, monthlyTax, ded) ==
    Sub(Sub(Add(Sub(monthlyGross, monthlyTax), ded.pension), ded.nhf), ded.insurance)

\* NetMonthlyPay with the insurance premium not subtracted
NetMonthlyPayKeepsInsurance(monthlyGross, monthlyTax, ded) ==
    Sub(Sub(Sub(monthlyGross, monthlyTax), ded.pension), ded.nhf)

\* monthlyGross - monthlyTax - pension - nhf - insurance
NetMonthlyPay(monthlyGross, monthlyTax, ded) ==
    Sub(Sub(Sub(Sub(monthlyGross, monthlyTax), ded.pension), ded.nhf), ded.insurance)

\* PAYEResult with netAnnualPay taken from the rounded netMonthlyPay
PAYEResultAnnualFromRounded(annualGrossIncome, allow, byBrackets, netMonthlyPay) ==
    [monthlyPAYE |-> Round2(Twelfth(byBrackets.tax)),
     annualPAYE |-> Round2(byBrackets.tax),
     effectiveTaxRate |-> Round2(EffectiveTaxRate(byBrackets.tax, annualGrossIncome)),
     taxableIncome |-> Round2(allow.taxableIncome),
     totalAllowances |-> Round2(allow.totalAllowances),
     bracketBreakdown |-> byBrackets.bracketBreakdown,
     netMonthlyPay |-> Round2(netMonthlyPay),
     netAnnualPay |-> Round2(Times(Round2(netMonthlyPay), 12))]

\* PAYEResult with annualPAYE taken from the rounded monthlyPAYE times 12
PAYEResultAnnualFromMonthly(annualGrossIncome, allow, byBrackets, netMonthlyPay) ==
    [monthlyPAYE |-> Round2(Twelfth(byBrackets.tax)),
     annualPAYE |-> Round2(Times(Round2(Twelfth(byBrackets.tax)), 12)),
     effectiveTaxRate |-> Round2(EffectiveTaxRate(byBrackets.tax, annualGrossIncome)),
     taxableIncome |-> Round2(allow.taxableIncome),
     totalAllowances |-> Round2(allow.totalAllowances),
     bracketBreakdown |-> byBrackets.bracketBreakdown,
     netMonthlyPay |-> Round2(netMonthlyPay),
     netAnnualPay |-> Round2(Times(netMonthlyPay, 12))]

\* the object calculatePAYE returns, from its local constants
PAYEResult(annualGrossIncome, allow, byBrackets, netMonthlyPay) ==
    [monthlyPAYE |-> Round2(Twelfth(byBrackets.tax)),
     annualPAYE |-> Round2(byBrackets.tax),
     effectiveTaxRate |-> Round2(EffectiveTaxRate(byBrackets.tax, annualGrossIncome)),
     taxableIncome |-> Round2(allow.taxableIncome),
     totalAllowances |-> Round2(allow.totalAllowances),
     bracketBreakdown |-> byBrackets.bracketBreakdown,
     netMonthlyPay |-> Round2(netMonthlyPay),
     netAnnualPay |-> Round2(Times(netMonthlyPay, 12))]

PAYEWithTax(monthlyGross, ded, allow, byBrackets) ==
    PAYEResult(Times(monthlyGross, 12), allow, byBrackets,
               NetMonthlyPay(monthlyGross, Twelfth(byBrackets.tax), ded))

PAYEWithAllowances(monthlyGross, brackets, ded, allow) ==
    PAYEWithTax(monthlyGross, ded, allow, calculateTaxByBrackets(allow.taxableIncome, brackets))

PAYEWithDeductions(monthlyGross, brackets, isReform, ded) ==
    PAYEWithAllowances(monthlyGross, brackets, ded,
        calculateAllowances(Times(monthlyGross, 12), isReform,
                            Times(Add(Add(ded.pension, ded.nhf), ded.insurance), 12)))

calculatePAYE(monthlyGross, brackets, isReform, addDeductions) ==
    PAYEWithDeductions(monthlyGross, brackets, isReform, parseDeductions(addDeductions))

\* SavingsPercentage guarded by annualSavings > 0 instead
SavingsPercentageWhenSaving(annualSavings, legacyAnnualPAYE) ==
    IF Lt(Zero, annualSavings) THEN PercentOf(annualSavings, legacyAnnualPAYE) ELSE Zero

\* legacy.annualPAYE > 0 ? annualSavings / legacy.annualPAYE * 100 : 0
SavingsPercentage(annualSavings, legacyAnnualPAYE) ==
    IF Lt(Zero, legacyAnnualPAYE) THEN PercentOf(annualSavings, legacyAnnualPAYE) ELSE Zero

\* ResultsOf with savings.annual taken as reform less legacy
ResultsOfAnnualReversed(legacyResult, reformResult, amount) ==
    [legacy |-> legacyResult,
     reform |-> reformResult,
     savings |-> [monthly |-> Sub(legacyResult.monthlyPAYE, reformResult.monthlyPAYE),
                  annual |-> Sub(reformResult.annualPAYE, legacyResult.annualPAYE),
                  percentage |->
                      SavingsPercentage(Sub(reformResult.annualPAYE, legacyResult.annualPAYE),
                                        legacyResult.annualPAYE)],
     monthlyGross |-> amount]

\* the object calculateResults returns, from the two regimes' results
ResultsOf(legacyResult, reformResult, amount) ==
    [legacy |-> legacyResult,
     reform |-> reformResult,
     savings |-> [monthly |-> Sub(legacyResult.monthlyPAYE, reformResult.monthlyPAYE),
                  annual |-> Sub(legacyResult.annualPAYE, reformResult.annualPAYE),
                  percentage |->
                      SavingsPercentage(Sub(legacyResult.annualPAYE, reformResult.annualPAYE),
                                        legacyResult.annualPAYE)],
     monthlyGross |-> amount]

calculateResults(amount, addDeductions) ==
    ResultsOf(calculatePAYE(amount, LEGACY_BRACKETS, FALSE, addDeductions),
              calculatePAYE(amount, REFORM_BRACKETS, TRUE, addDeductions),
              amount)

----------------------------------------------------------------------------
(* The caller.  Inputs are drawn from small sets that reach every bracket   *)
(* of both tables, the floor of taxable income at 0, amounts with cents,   *)
(* a negative gross, and texts that parse, parse in part, or do not parse. *)

NoResults == [none |-> TRUE]

EmptyText == <<>>
NoDeductions == [pension |-> EmptyText, nhf |-> EmptyText, insurance |-> EmptyText]

GrossInputs ==
    { Neg(Naira(500000)), Zero, Naira(10000), Money(83333, 33), Norm(83333, 334 * (DEN \div 1000)),
      Money(83333, 34), Money(123456, 78),
      Naira(250000), Naira(500000), Money(1234567, 89), Naira(2000000),
      Naira(4500000), Naira(10000000) }

Fields == {"pension", "nhf", "insurance"}

CommonTexts ==
    { EmptyText, <<"a", "b", "c">>, <<"5", "0", "0", "0">>, <<"-", "2", "5", "0", "0">> }

DeductionTexts ==
    [pension |-> CommonTexts \cup { <<"6", "0", "0", "0", "0", "0">>,
                                    <<"-", "6", "0", "0", "0", "0">> },
     nhf |-> CommonTexts \cup { <<"1", "2", "5", "0", ".", "2", "5">>, <<"1", "2", "p", "x">> },
     insurance |-> CommonTexts \cup { <<"7", ".", "5", "e", "2">>, <<" ", "+", ".", "1", "2", "5">> }]

\* Call with the legacy table consumed by the loop (brackets.shift())
CallShiftingTable(g, d) ==
    /\ monthlyAmount' = g
    /\ additionalDeductions' = d
    /\ deductions' = parseDeductions(d)
    /\ results' = calculateResults(g, d)
    /\ LEGACY_BRACKETS' = Tail(LEGACY_BRACKETS)
    /\ UNCHANGED REFORM_BRACKETS

\* calculateResults(g, d) is called and returns
Call(g, d) ==
    /\ monthlyAmount' = g
    /\ additionalDeductions' = d
    /\ deductions' = parseDeductions(d)
    /\ results' = calculateResults(g, d)
    /\ UNCHANGED <<LEGACY_BRACKETS, REFORM_BRACKETS>>

Init ==
    /\ LEGACY_BRACKETS = LegacyTable
    /\ REFORM_BRACKETS = ReformTable
    /\ monthlyAmount = Zero
    /\ additionalDeductions = NoDeductions
    /\ deductions = parseDeductions(NoDeductions)
    /\ results = NoResults
    /\ calls = <<>>
    /\ taxableIncomeArg = Zero
    /\ bracketsArg = ""
    /\ taxByBrackets = NoResults
    /\ monthlyGrossInput = EmptyText
    /\ inputType = "monthly"
    /\ showBreakdown = FALSE
    /\ showScenarios = FALSE
    /\ scenarios = <<>>
    /\ customScenario = [label |-> "", amount |-> EmptyText, type |-> "percentage"]
    /\ now = 0
    /\ attempts = <<>>

\* a call with another gross amount and the deductions as they are
CalculateGross ==
    \E g \in GrossInputs :
        Call(g, additionalDeductions) /\ UNCHANGED <<calls, bracketVars, componentVars>>

\* a call with one deduction field rewritten and the gross amount as it is
CalculateDeduction ==
    \E field \in Fields : \E text \in DeductionTexts[field] :
        Call(monthlyAmount, [additionalDeductions EXCEPT ![field] = text])
        /\ UNCHANGED <<calls, bracketVars, componentVars>>

Next == CalculateGross \/ CalculateDeduction

Spec == Init /\ [][Next]_vars

----------------------------------------------------------------------------
(* calculateTaxByBrackets called on its own, on taxable incomes at, just    *)
(* below and just above every limit of both tables.                        *)

Limits ==
    { Zero } \cup { LegacyTable[i].limit : i \in 1..5 } \cup { ReformTable[i].limit : i \in 1..5 }

Offsets ==
    { Naira(0 - 1), Neg(Money(0, 1)), Zero, Norm(0, 4 * (DEN \div 1000)), Money(0, 1),
      Naira(1), Money(123456, 78) }

TaxableInputs == { t \in { Add(l, d) : l \in Limits, d \in Offsets } : Le(Zero, t) }

TaxByBrackets ==
    \E r \in {"legacy", "reform"} : \E t \in TaxableInputs :
        /\ taxableIncomeArg' = t
        /\ bracketsArg' = r
        /\ taxByBrackets' =
               calculateTaxByBrackets(t, IF r = "reform" THEN REFORM_BRACKETS
                                         ELSE LEGACY_BRACKETS)
        /\ UNCHANGED <<engineVars, componentVars>>

BracketNext == TaxByBrackets

BracketSpec == Init /\ [][BracketNext]_vars

----------------------------------------------------------------------------
(* The same caller with the history of its calls kept, for the properties   *)
(* that relate one call to another.  MaxCalls bounds the history.          *)

MaxCalls == 3

HistoryGross == { Naira(50000), Money(83333, 34), Naira(4500000) }

HistoryDeductions ==
    { NoDeductions,
      [NoDeductions EXCEPT !.pension = <<"6", "0", "0", "0", "0">>],
      [NoDeductions EXCEPT !.nhf = <<"1", "2", "5", "0", ".", "2", "5">>],
      [NoDeductions EXCEPT !.insurance = <<"5", "0", "0", "0">>],
      [NoDeductions EXCEPT !.pension = <<"6", "0", "0", "0", "0">>,
                           !.nhf = <<"1", "2", "5", "0", ".", "2", "5">>] }

RecordedCall ==
    \E g \in HistoryGross : \E d \in HistoryDeductions :
        /\ Len(calls) < MaxCalls
        /\ Call(g, d)
        /\ calls' = Append(calls, [monthlyAmount |-> g, additionalDeductions |-> d,
                                   deductions |-> deductions', results |-> results'])
        /\ UNCHANGED <<bracketVars, componentVars>>

HistoryNext == RecordedCall

HistorySpec == Init /\ [][HistoryNext]_vars

----------------------------------------------------------------------------
(* PayeCalculator.tsx: the component, with its own copy of the engine and   *)
(* of the tables.  The copy's text is that of utils.ts except for the      *)
(* totalAllowances it reports.  A control acts only while it is rendered.  *)
(* The fields are number inputs: their text is empty or a number.          *)

legacyBrackets ==
    << [limit |-> Naira(300000), rate |-> 7],
       [limit |-> Naira(600000), rate |-> 11],
       [limit |-> Naira(1100000), rate |-> 15],
       [limit |-> Naira(1600000), rate |-> 19],
       [limit |-> Naira(3200000), rate |-> 21],
       [limit |-> Infinity, rate |-> 24] >>

reformBrackets ==
    << [limit |-> Naira(800000), rate |-> 0],
       [limit |-> Naira(3000000), rate |-> 15],
       [limit |-> Naira(12000000), rate |-> 18],
       [limit |-> Naira(25000000), rate |-> 21],
       [limit |-> Naira(50000000), rate |-> 23],
       [limit |-> Infinity, rate |-> 25] >>

\* the object the component's calculatePAYE returns
ComponentPAYEWithTax(monthlyGross, ded, allow, byBrackets) ==
    [PAYEWithTax(monthlyGross, ded, allow, byBrackets)
        EXCEPT !.totalAllowances = Round2(Sub(Times(monthlyGross, 12), allow.taxableIncome))]

ComponentPAYEWithAllowances(monthlyGross, brackets, ded, allow) ==
    ComponentPAYEWithTax(monthlyGross, ded, allow,
                         calculateTaxByBrackets(allow.taxableIncome, brackets))

ComponentCalculatePAYE(monthlyGross, brackets, isReform, addDeductions) ==
    ComponentPAYEWithAllowances(monthlyGross, brackets, parseDeductions(addDeductions),
        calculateAllowances(Times(monthlyGross, 12), isReform,
            Times(Add(Add(parseDeductions(addDeductions).pension,
                          parseDeductions(addDeductions).nhf),
                      parseDeductions(addDeductions).insurance), 12)))

ComponentCalculateResults(amount, addDeductions) ==
    ResultsOf(ComponentCalculatePAYE(amount, legacyBrackets, FALSE, addDeductions),
              ComponentCalculatePAYE(amount, reformBrackets, TRUE, addDeductions),
              amount)

MaxScenarios == 2
MaxTime == 1

SalaryTexts == { EmptyText, <<"-", "1", "0", "0">>, <<"5", "0", "0", "0", "0", "0">> }

\* two of the four quick buttons, one for each branch of addQuickScenario (the raises
\* of 10% and 20% take the branch of the pay cut); fixedAmount 0: the argument is left out
QuickScenarios ==
    { [label |-> "-10% Pay Cut", changePercent |-> 0 - 10, fixedAmount |-> 0],
      [label |-> "+N100k Bonus", changePercent |-> 0, fixedAmount |-> 100000] }

CustomLabels == { "", "Offer" }
\* whole numbers: a percentage is applied as hundredths
CustomAmounts == { EmptyText, <<"-", "2", "0", "0">> }

\* a call of the component's calculateResults, as the engine variables record it
ComponentCall(g) ==
    /\ monthlyAmount' = g
    /\ deductions' = parseDeductions(additionalDeductions)
    /\ UNCHANGED <<LEGACY_BRACKETS, REFORM_BRACKETS, additionalDeductions, calls>>

NoCall == UNCHANGED <<LEGACY_BRACKETS, REFORM_BRACKETS, monthlyAmount, additionalDeductions,
                      deductions, calls>>

setMonthlyGross ==
    \E text \in SalaryTexts :
        /\ monthlyGrossInput' = text
        /\ NoCall
        /\ UNCHANGED <<results, bracketVars, attempts, inputType, showBreakdown, showScenarios,
                       scenarios, customScenario, now>>

setInputType ==
    \E type \in {"monthly", "annual"} :
        /\ inputType' = type
        /\ NoCall
        /\ UNCHANGED <<results, bracketVars, attempts, monthlyGrossInput, showBreakdown, showScenarios,
                       scenarios, customScenario, now>>

\* parseFloat(monthlyGross), divided by 12 when the input is annual
EnteredAmount ==
    IF inputType = "annual" /\ parseFloat(monthlyGrossInput) # NaN
    THEN Twelfth(parseFloat(monthlyGrossInput))
    ELSE parseFloat(monthlyGrossInput)

\* handleCalculate with setResults(null) when the amount is rejected
handleCalculateResetsOnReject ==
    /\ IF EnteredAmount # NaN /\ Le(Zero, EnteredAmount)
       THEN /\ results' = ComponentCalculateResults(EnteredAmount, additionalDeductions)
            /\ ComponentCall(EnteredAmount)
       ELSE /\ results' = NoResults
            /\ NoCall
    /\ UNCHANGED <<bracketVars, monthlyGrossInput, inputType, showBreakdown, showScenarios,
                   scenarios, customScenario, now>>

\* the handler; it says nothing of the history of its runs
handleCalculate ==
    /\ IF EnteredAmount # NaN /\ Le(Zero, EnteredAmount)
       THEN /\ results' = ComponentCalculateResults(EnteredAmount, additionalDeductions)
            /\ ComponentCall(EnteredAmount)
       ELSE /\ UNCHANGED results
            /\ NoCall
    /\ UNCHANGED <<bracketVars, monthlyGrossInput, inputType, showBreakdown, showScenarios,
                   scenarios, customScenario, now>>

\* the Calculate Tax button is disabled while the salary field is empty
CalculateEnabled == monthlyGrossInput # EmptyText

\* a click on Calculate Tax
Calculate ==
    /\ CalculateEnabled
    /\ handleCalculate
    /\ UNCHANGED attempts

\* handleClear without setScenarios([])
handleClearKeepsScenarios ==
    /\ monthlyGrossInput' = EmptyText
    /\ results' = NoResults
    /\ showBreakdown' = FALSE
    /\ showScenarios' = FALSE
    /\ NoCall
    /\ UNCHANGED <<bracketVars, attempts, inputType, scenarios, customScenario, now>>

handleClear ==
    /\ monthlyGrossInput' = EmptyText
    /\ results' = NoResults
    /\ showBreakdown' = FALSE
    /\ showScenarios' = FALSE
    /\ scenarios' = <<>>
    /\ NoCall
    /\ UNCHANGED <<bracketVars, attempts, inputType, customScenario, now>>

toggleBreakdown ==
    /\ results # NoResults
    /\ showBreakdown' = ~showBreakdown
    /\ NoCall
    /\ UNCHANGED <<results, bracketVars, attempts, monthlyGrossInput, inputType, showScenarios,
                   scenarios, customScenario, now>>

toggleScenarios ==
    /\ results # NoResults
    /\ showScenarios' = ~showScenarios
    /\ NoCall
    /\ UNCHANGED <<results, bracketVars, attempts, monthlyGrossInput, inputType, showBreakdown,
                   scenarios, customScenario, now>>

ScenariosShown == results # NoResults /\ showScenarios

\* the scenario built from a new gross at the present time
NewScenario(label, newMonthlyGross) ==
    [id |-> NatToString(now),
     label |-> label,
     monthlyGross |-> newMonthlyGross,
     results |-> ComponentCalculateResults(newMonthlyGross, additionalDeductions)]

\* results.monthlyGross * (1 + percent / 100)
ChangedBy(percent) == Hundredths(results.monthlyGross, 100 + percent)

\* addQuickScenario with the new scenario put first
addQuickScenarioFirst(label, changePercent, fixedAmount) ==
    /\ ScenariosShown
    /\ Len(scenarios) < MaxScenarios
    /\ LET newMonthlyGross ==
               IF fixedAmount # 0 THEN Add(results.monthlyGross, Naira(fixedAmount))
               ELSE ChangedBy(changePercent)
       IN  /\ scenarios' = <<NewScenario(label, newMonthlyGross)>> \o scenarios
           /\ ComponentCall(newMonthlyGross)
    /\ UNCHANGED <<results, bracketVars, attempts, monthlyGrossInput, inputType, showBreakdown,
                   showScenarios, customScenario, now>>

addQuickScenario(label, changePercent, fixedAmount) ==
    /\ ScenariosShown
    /\ Len(scenarios) < MaxScenarios
    /\ LET newMonthlyGross ==
               IF fixedAmount # 0 THEN Add(results.monthlyGross, Naira(fixedAmount))
               ELSE ChangedBy(changePercent)
       IN  /\ scenarios' = Append(scenarios, NewScenario(label, newMonthlyGross))
           /\ ComponentCall(newMonthlyGross)
    /\ UNCHANGED <<results, bracketVars, attempts, monthlyGrossInput, inputType, showBreakdown,
                   showScenarios, customScenario, now>>

QuickScenario ==
    \E q \in QuickScenarios : addQuickScenario(q.label, q.changePercent, q.fixedAmount)

setCustomScenario ==
    /\ ScenariosShown
    /\ \/ \E label \in CustomLabels : customScenario' = [customScenario EXCEPT !.label = label]
       \/ \E amount \in CustomAmounts :
              customScenario' = [customScenario EXCEPT !.amount = amount]
       \/ \E type \in {"percentage", "fixed"} :
              customScenario' = [customScenario EXCEPT !.type = type]
    /\ NoCall
    /\ UNCHANGED <<results, bracketVars, attempts, monthlyGrossInput, inputType, showBreakdown,
                   showScenarios, scenarios, now>>

addCustomScenario ==
    /\ ScenariosShown
    /\ Len(scenarios) < MaxScenarios
    /\ IF customScenario.label = "" \/ customScenario.amount = EmptyText
          \/ parseFloat(customScenario.amount) = NaN
       THEN /\ UNCHANGED <<scenarios, customScenario>>
            /\ NoCall
       ELSE LET amount == parseFloat(customScenario.amount)
                newMonthlyGross ==
                    IF customScenario.type = "percentage" THEN ChangedBy(amount.w)
                    ELSE Add(results.monthlyGross, amount)
            IN  /\ scenarios' =
                       Append(scenarios, NewScenario(customScenario.label, newMonthlyGross))
                /\ customScenario' = [label |-> "", amount |-> EmptyText, type |-> "percentage"]
                /\ ComponentCall(newMonthlyGross)
    /\ UNCHANGED <<results, bracketVars, attempts, monthlyGrossInput, inputType, showBreakdown,
                   showScenarios, now>>

KeptScenario(s, id) == s.id # id
Filtered(list, id) == SelectSeq(list, LAMBDA s : KeptScenario(s, id))

removeScenario(id) ==
    /\ ScenariosShown
    /\ scenarios' = Filtered(scenarios, id)
    /\ NoCall
    /\ UNCHANGED <<results, bracketVars, attempts, monthlyGrossInput, inputType, showBreakdown,
                   showScenarios, customScenario, now>>

RemoveShownScenario ==
    \E k \in 1..Len(scenarios) : removeScenario(scenarios[k].id)

\* the clock moves on (it is read only when a scenario is added)
Tick ==
    /\ ScenariosShown
    /\ Len(scenarios) < MaxScenarios
    /\ now < MaxTime
    /\ now' = now + 1
    /\ NoCall
    /\ UNCHANGED <<results, bracketVars, attempts, monthlyGrossInput, inputType, showBreakdown,
                   showScenarios, scenarios, customScenario>>

ComponentNext ==
    \/ setMonthlyGross
    \/ setInputType
    \/ Calculate
    \/ handleClear
    \/ toggleBreakdown
    \/ toggleScenarios
    \/ QuickScenario
    \/ setCustomScenario
    \/ addCustomScenario
    \/ RemoveShownScenario
    \/ Tick

ComponentSpec == Init /\ [][ComponentNext]_vars

----------------------------------------------------------------------------
(* PayeCalculator.tsx: the input side of the component.  The pension field  *)
(* is edited between calculations and every run of handleCalculate is      *)
(* kept in attempts, with the amount it parsed.  Scenarios come from the   *)
(* quick buttons alone and the clock stands still.                         *)

MaxAttempts == 2

PensionTexts == { EmptyText, <<"6", "0", "0", "0", "0">> }

\* setAdditionalDeductions(prev => ({ ...prev, [field]: text }))
setAdditionalDeductions(field, text) ==
    /\ additionalDeductions' = [additionalDeductions EXCEPT ![field] = text]
    /\ UNCHANGED <<LEGACY_BRACKETS, REFORM_BRACKETS, monthlyAmount, deductions, results, calls,
                   bracketVars, componentVars>>

EditPension == \E text \in PensionTexts : setAdditionalDeductions("pension", text)

\* a click on Calculate Tax, kept in the history
CalculateAttempt ==
    /\ CalculateEnabled
    /\ Len(attempts) < MaxAttempts
    /\ handleCalculate
    /\ attempts' = Append(attempts, EnteredAmount)

InputNext ==
    \/ setMonthlyGross
    \/ setInputType
    \/ EditPension
    \/ CalculateAttempt
    \/ toggleBreakdown
    \/ toggleScenarios
    \/ QuickScenario

InputSpec == Init /\ [][InputNext]_vars

----------------------------------------------------------------------------
(* Properties *)

HasResults == results # NoResults
Regimes == {"legacy", "reform"}
Cent == Money(0, 1)

\* |a - b| <= 0.01
WithinCent(a, b) == Le(Abs(Sub(a, b)), Cent)

RECURSIVE SumTax(_)
SumTax(bracketBreakdown) ==
    IF bracketBreakdown = <<>> THEN Zero
    ELSE Add(Head(bracketBreakdown).tax, SumTax(Tail(bracketBreakdown)))

\* taxable income before rounding, as calculateAllowances gives it for the latest call
UnroundedTaxable(isReform) ==
    calculateAllowances(Times(monthlyAmount, 12), isReform,
        Times(Add(Add(deductions.pension, deductions.nhf), deductions.insurance), 12)).taxableIncome

\* C1: with empty deductions the reported totalAllowances of each regime is
\* round2(annualGross - taxableIncome), and taxableIncome + totalAllowances is
\* within 0.01 of monthlyGross * 12.
C1_AllowancesComplementTaxable ==
    (HasResults /\ additionalDeductions = NoDeductions) =>
        \A r \in Regimes :
            /\ results[r].totalAllowances
                 = Round2(Sub(Times(monthlyAmount, 12), UnroundedTaxable(r = "reform")))
            /\ WithinCent(Add(results[r].taxableIncome, results[r].totalAllowances),
                          Times(monthlyAmount, 12))

\* C2 as stated: savings.percentage is savings.annual / legacy.annualPAYE * 100 when
\* savings.annual > 0 and 0 otherwise, so it is never negative.
C2_PercentageZeroUnlessSaving ==
    HasResults =>
        /\ results.savings.percentage
             = (IF Lt(Zero, results.savings.annual)
                THEN PercentOf(results.savings.annual, results.legacy.annualPAYE)
                ELSE Zero)
        /\ Le(Zero, results.savings.percentage)

\* C2 as amended: savings.percentage is savings.annual / legacy.annualPAYE * 100 when
\* legacy.annualPAYE > 0 and 0 otherwise; it is negative when the reform regime yields
\* a higher annual PAYE than a positive legacy annual PAYE.
C2_PercentageGuardedByLegacyPAYE ==
    HasResults =>
        /\ results.savings.annual
             = Sub(results.legacy.annualPAYE, results.reform.annualPAYE)
        /\ results.savings.percentage
             = (IF Lt(Zero, results.legacy.annualPAYE)
                THEN PercentOf(results.savings.annual, results.legacy.annualPAYE)
                ELSE Zero)
        /\ (Lt(Zero, results.legacy.annualPAYE)
            /\ Lt(results.legacy.annualPAYE, results.reform.annualPAYE))
               => Lt(results.savings.percentage, Zero)

C2_Witness ==
    /\ HasResults
    /\ Lt(Zero, results.legacy.annualPAYE)
    /\ Lt(results.legacy.annualPAYE, results.reform.annualPAYE)
    /\ Lt(results.savings.percentage, Zero)

\* C3: calculateResults(500000, no deductions) gives legacy taxable income 4,600,000,
\* annual PAYE 896,000, monthly PAYE 74,666.67; reform taxable income 5,800,000, annual
\* PAYE 834,000, monthly PAYE 69,500; savings.monthly 5,166.67 and savings.percentage
\* 6.92 to two decimals.
C3_WorkedExample ==
    (HasResults /\ monthlyAmount = Naira(500000) /\ additionalDeductions = NoDeductions) =>
        /\ results.legacy.taxableIncome = Naira(4600000)
        /\ results.legacy.annualPAYE = Naira(896000)
        /\ results.legacy.monthlyPAYE = Money(74666, 67)
        /\ results.reform.taxableIncome = Naira(5800000)
        /\ results.reform.annualPAYE = Naira(834000)
        /\ results.reform.monthlyPAYE = Naira(69500)
        /\ results.savings.monthly = Money(5166, 67)
        /\ Round2(results.savings.percentage) = Money(6, 92)

C3_Witness ==
    /\ HasResults
    /\ monthlyAmount = Naira(500000)
    /\ additionalDeductions = NoDeductions
    /\ Len(results.legacy.bracketBreakdown) = 6
    /\ Len(results.reform.bracketBreakdown) = 3

\* C5: in each regime the taxes of the breakdown lines sum to the reported annualPAYE
\* within 0.01.
C5_BreakdownSumsToAnnualPAYE ==
    HasResults =>
        \A r \in Regimes :
            WithinCent(SumTax(results[r].bracketBreakdown), results[r].annualPAYE)

\* a result whose tax has a fraction of a cent, spread over several lines
C5_Witness ==
    /\ HasResults
    /\ \E r \in Regimes :
        /\ Len(results[r].bracketBreakdown) >= 3
        /\ SumTax(results[r].bracketBreakdown) # results[r].annualPAYE

\* C6: calculateResults(0, empty deductions) gives, in both regimes, taxableIncome 0,
\* annualPAYE 0, an empty bracketBreakdown and netMonthlyPay 0.
C6_ZeroIncome ==
    (HasResults /\ monthlyAmount = Zero /\ additionalDeductions = NoDeductions) =>
        \A r \in Regimes :
            /\ results[r].taxableIncome = Zero
            /\ results[r].annualPAYE = Zero
            /\ results[r].bracketBreakdown = <<>>
            /\ results[r].netMonthlyPay = Zero

C6_Witness ==
    /\ HasResults
    /\ monthlyAmount = Zero
    /\ additionalDeductions = NoDeductions
    /\ results.monthlyGross = Zero

\* What JavaScript's parseFloat(text) || 0 gives for the texts of the model, written
\* out by hand.
ExpectedDeduction(text) ==
    CASE text = EmptyText -> Zero
      [] text = <<"a", "b", "c">> -> Zero
      [] text = <<"5", "0", "0", "0">> -> Naira(5000)
      [] text = <<"-", "2", "5", "0", "0">> -> Naira(0 - 2500)
      [] text = <<"6", "0", "0", "0", "0", "0">> -> Naira(600000)
      [] text = <<"-", "6", "0", "0", "0", "0">> -> Naira(0 - 60000)
      [] text = <<"1", "2", "5", "0", ".", "2", "5">> -> Money(1250, 25)
      [] text = <<"1", "2", "p", "x">> -> Naira(12)
      [] text = <<"7", ".", "5", "e", "2">> -> Naira(750)
      [] text = <<" ", "+", ".", "1", "2", "5">> -> Norm(0, DEN \div 8)

\* C9: parseDeductions never fails: in each field an empty text or a text with no
\* number to read gives exactly 0, a text with a number gives that number, whatever
\* the other fields hold.
C9_ParseDeductionsTotal ==
    \A field \in Fields :
        /\ deductions[field] # NaN
        /\ deductions[field] = ExpectedDeduction(additionalDeductions[field])

C9_Witness ==
    /\ HasResults
    /\ additionalDeductions.pension = <<"a", "b", "c">>
    /\ additionalDeductions.nhf = <<"1", "2", "5", "0", ".", "2", "5">>
    /\ additionalDeductions.insurance = EmptyText
    /\ deductions = [pension |-> Zero, nhf |-> Money(1250, 25), insurance |-> Zero]

\* C10: every field of the normalized deductions is >= 0, whatever the texts.
C10_DeductionsNonNegative ==
    \A field \in Fields : Le(Zero, deductions[field])

----------------------------------------------------------------------------
(* The unrounded locals of calculatePAYE in the latest call, recomputed from *)
(* its arguments                                                           *)

AnnualGross == Times(monthlyAmount, 12)
TotalAdditional ==
    Times(Add(Add(deductions.pension, deductions.nhf), deductions.insurance), 12)
UnroundedAllowances(r) == calculateAllowances(AnnualGross, r = "reform", TotalAdditional)
TableOf(r) == IF r = "reform" THEN REFORM_BRACKETS ELSE LEGACY_BRACKETS
UnroundedTax(r) == calculateTaxByBrackets(UnroundedAllowances(r).taxableIncome, TableOf(r)).tax
UnroundedNet(r) == NetMonthlyPay(monthlyAmount, Twelfth(UnroundedTax(r)), deductions)

HalfCent == Norm(0, CENT \div 2)
IsCents(v) == v.f % CENT = 0

\* v is u rounded to two decimals, a tie going up: v - 0.005 <= u < v + 0.005
RoundedHalfUp(v, u) ==
    IsCents(v) /\ Le(Sub(v, HalfCent), u) /\ Lt(u, Add(v, HalfCent))

\* v is u rounded to two decimals, a tie going away from zero
RoundedHalfAway(v, u) ==
    IF Le(Zero, u) THEN RoundedHalfUp(v, u)
    ELSE IsCents(v) /\ Lt(Sub(v, HalfCent), u) /\ Le(u, Add(v, HalfCent))

\* C11: taxableIncome is never negative in either regime, before and after rounding,
\* also when the deductions exceed the gross, and it is exactly 0 whenever the total
\* of allowances and deductions meets or exceeds the annual gross.
C11_TaxableIncomeNeverNegative ==
    HasResults =>
        \A r \in Regimes :
            /\ Le(Zero, UnroundedAllowances(r).taxableIncome)
            /\ Le(Zero, results[r].taxableIncome)
            /\ Le(AnnualGross, UnroundedAllowances(r).totalAllowances) =>
                   /\ UnroundedAllowances(r).taxableIncome = Zero
                   /\ results[r].taxableIncome = Zero

\* deductions above a positive gross
C11_Witness ==
    /\ HasResults
    /\ Lt(Zero, monthlyAmount)
    /\ Lt(AnnualGross, TotalAdditional)
    /\ \A r \in Regimes : results[r].taxableIncome = Zero

\* C12 as stated: each rounded field of each regime's result is its unrounded value
\* rounded to two decimals with a tie going away from zero, for positive and negative
\* values.
C12_RoundedHalfAwayFromZero ==
    HasResults =>
        \A r \in Regimes :
            /\ RoundedHalfAway(results[r].monthlyPAYE, Twelfth(UnroundedTax(r)))
            /\ RoundedHalfAway(results[r].annualPAYE, UnroundedTax(r))
            /\ RoundedHalfAway(results[r].effectiveTaxRate,
                               EffectiveTaxRate(UnroundedTax(r), AnnualGross))
            /\ RoundedHalfAway(results[r].taxableIncome, UnroundedAllowances(r).taxableIncome)
            /\ RoundedHalfAway(results[r].totalAllowances,
                               UnroundedAllowances(r).totalAllowances)
            /\ RoundedHalfAway(results[r].netMonthlyPay, UnroundedNet(r))
            /\ RoundedHalfAway(results[r].netAnnualPay, Times(UnroundedNet(r), 12))

\* C12 as amended: each rounded field is Math.round(x * 100) / 100 of its unrounded
\* value x: rounded to two decimals with a tie going up (towards positive infinity),
\* for positive and negative values alike.
C12_RoundedHalfUp ==
    HasResults =>
        \A r \in Regimes :
            /\ RoundedHalfUp(results[r].monthlyPAYE, Twelfth(UnroundedTax(r)))
            /\ RoundedHalfUp(results[r].annualPAYE, UnroundedTax(r))
            /\ RoundedHalfUp(results[r].effectiveTaxRate,
                             EffectiveTaxRate(UnroundedTax(r), AnnualGross))
            /\ RoundedHalfUp(results[r].taxableIncome, UnroundedAllowances(r).taxableIncome)
            /\ RoundedHalfUp(results[r].totalAllowances,
                             UnroundedAllowances(r).totalAllowances)
            /\ RoundedHalfUp(results[r].netMonthlyPay, UnroundedNet(r))
            /\ RoundedHalfUp(results[r].netAnnualPay, Times(UnroundedNet(r), 12))

\* a negative net pay on a tie: -0.125 is reported as -0.12
C12_Witness ==
    /\ HasResults
    /\ UnroundedNet("legacy") = Neg(Norm(0, DEN \div 8))
    /\ results.legacy.netMonthlyPay = Neg(Money(0, 12))

\* C13 as stated: netAnnualPay is round2(12 * r) for r the reported netMonthlyPay.
C13_NetAnnualFromRoundedMonthly ==
    HasResults =>
        \A r \in Regimes :
            results[r].netAnnualPay = Round2(Times(results[r].netMonthlyPay, 12))

\* C13 as amended: netAnnualPay is round2(12 * n) for n the unrounded net monthly pay
\* (monthlyGross - tax / 12 - pension - nhf - insurance); it is within 0.06 of 12
\* times the reported netMonthlyPay.
C13_NetAnnualFromUnroundedMonthly ==
    HasResults =>
        \A r \in Regimes :
            /\ RoundedHalfUp(results[r].netAnnualPay, Times(UnroundedNet(r), 12))
            /\ Le(Abs(Sub(results[r].netAnnualPay, Times(results[r].netMonthlyPay, 12))),
                  Money(0, 6))

\* a result whose netAnnualPay is not 12 times its reported netMonthlyPay
C13_Witness ==
    /\ HasResults
    /\ \E r \in Regimes :
        /\ results[r].netAnnualPay # Times(results[r].netMonthlyPay, 12)
        /\ results[r].netAnnualPay = Round2(Times(UnroundedNet(r), 12))

\* C14: annualPAYE is round2(t) and monthlyPAYE is round2(t / 12) for the same
\* unrounded annual tax t: each is within half a cent of its own unrounded value,
\* whatever the other was rounded to.
C14_PAYERoundedIndependently ==
    HasResults =>
        \A r \in Regimes :
            /\ RoundedHalfUp(results[r].annualPAYE, UnroundedTax(r))
            /\ RoundedHalfUp(results[r].monthlyPAYE, Twelfth(UnroundedTax(r)))
            /\ Le(Abs(Sub(Times(results[r].monthlyPAYE, 12), UnroundedTax(r))), Money(0, 6))

\* a result where the two roundings show: annualPAYE is not 12 * monthlyPAYE, and
\* monthlyPAYE is not what the rounded annualPAYE would give
C14_Witness ==
    /\ HasResults
    /\ \E r \in Regimes :
        results[r].annualPAYE # Round2(Times(results[r].monthlyPAYE, 12))
    /\ \E r \in Regimes :
        results[r].monthlyPAYE # Round2(Twelfth(results[r].annualPAYE))

ExpectedRelief ==
    IF Lt(Naira(20000000), AnnualGross) THEN Hundredths(AnnualGross, 1) ELSE Naira(200000)

ExpectedTotalAllowances(r) ==
    IF r = "reform" THEN Add(ExpectedRelief, TotalAdditional)
    ELSE Add(Add(ExpectedRelief, Hundredths(AnnualGross, 20)), TotalAdditional)

ExpectedTaxable(r) ==
    IF Lt(ExpectedTotalAllowances(r), AnnualGross)
    THEN Sub(AnnualGross, ExpectedTotalAllowances(r))
    ELSE Zero

\* C19: calculateAllowances returns, for legacy, totalAllowances = consolidatedRelief
\* + 20% of annualGross + additionalDeductions, for reform, totalAllowances =
\* consolidatedRelief + additionalDeductions, and in both taxableIncome = max(0,
\* annualGross - totalAllowances), with consolidatedRelief = max(200000, 1% of
\* annualGross); the result reports both rounded to two decimals.
C19_AllowanceRules ==
    HasResults =>
        \A r \in Regimes :
            /\ UnroundedAllowances(r).totalAllowances = ExpectedTotalAllowances(r)
            /\ UnroundedAllowances(r).taxableIncome = ExpectedTaxable(r)
            /\ RoundedHalfUp(results[r].taxableIncome, ExpectedTaxable(r))
            /\ RoundedHalfUp(results[r].totalAllowances, ExpectedTotalAllowances(r))

\* a gross whose 1% exceeds 200,000, with deductions, taxed in both regimes
C19_Witness ==
    /\ HasResults
    /\ Lt(Naira(200000), ExpectedRelief)
    /\ Lt(Zero, TotalAdditional)
    /\ Lt(Zero, results.legacy.taxableIncome)
    /\ Lt(results.legacy.taxableIncome, results.reform.taxableIncome)
    /\ Lt(results.reform.totalAllowances, results.legacy.totalAllowances)

\* v% of a for a percentage v >= 0 with two decimals: a * v / 100
ShareOf(a, v) == Add(Hundredths(a, v.w), Hundredths(Hundredths(a, v.f \div CENT), 1))

\* 0.005% of a: what half a cent of a percentage is worth
HalfCentShare(a) == Hundredths(Hundredths(Hundredths(a, 50), 1), 1)

\* the rate of the last bracket, as a percentage
TopMarginalRate(r) == IF r = "reform" THEN Naira(25) ELSE Naira(24)

\* C21: effectiveTaxRate is tax / annualGross * 100 rounded to two decimals when
\* annualGross > 0 (the rate applied to annualGross gives the tax back within half a
\* cent of a percent) and exactly 0 when annualGross <= 0; for a non-negative gross it
\* never exceeds the top marginal rate of the regime, 24 for legacy and 25 for reform.
C21_EffectiveTaxRate ==
    HasResults =>
        \A r \in Regimes :
            /\ Lt(Zero, AnnualGross) =>
                   /\ IsCents(results[r].effectiveTaxRate)
                   /\ Le(Zero, results[r].effectiveTaxRate)
                   /\ Le(Sub(ShareOf(AnnualGross, results[r].effectiveTaxRate),
                             HalfCentShare(AnnualGross)),
                         UnroundedTax(r))
                   /\ Lt(UnroundedTax(r),
                         Add(ShareOf(AnnualGross, results[r].effectiveTaxRate),
                             HalfCentShare(AnnualGross)))
            /\ Le(AnnualGross, Zero) => results[r].effectiveTaxRate = Zero
            /\ Le(Zero, monthlyAmount) =>
                   Le(results[r].effectiveTaxRate, TopMarginalRate(r))

\* the parts of C21 that do not depend on the sign of the deductions
C21_RateOfGross ==
    HasResults =>
        \A r \in Regimes :
            /\ Lt(Zero, AnnualGross) =>
                   /\ Le(Sub(ShareOf(AnnualGross, results[r].effectiveTaxRate),
                             HalfCentShare(AnnualGross)),
                         UnroundedTax(r))
                   /\ Lt(UnroundedTax(r),
                         Add(ShareOf(AnnualGross, results[r].effectiveTaxRate),
                             HalfCentShare(AnnualGross)))
            /\ Le(AnnualGross, Zero) => results[r].effectiveTaxRate = Zero
            /\ (Le(Zero, monthlyAmount) /\ \A field \in Fields : Le(Zero, deductions[field]))
                   => Le(results[r].effectiveTaxRate, TopMarginalRate(r))


\* what the component's own calculateResults returns for the latest call's arguments
ComponentResults == ComponentCalculateResults(monthlyAmount, additionalDeductions)

\* C22: the engine of utils.ts and the copy in PayeCalculator.tsx are equivalent: their
\* bracket tables are identical and, for the same monthlyGross and deductions, their
\* Results are equal field by field, totalAllowances of each regime included.
C22_EnginesEquivalent ==
    /\ legacyBrackets = LEGACY_BRACKETS
    /\ reformBrackets = REFORM_BRACKETS
    /\ HasResults => results = ComponentResults

\* the two Results differ in no field other than totalAllowances
C22_EqualButTotalAllowances ==
    /\ legacyBrackets = LEGACY_BRACKETS
    /\ reformBrackets = REFORM_BRACKETS
    /\ HasResults =>
           /\ results.savings = ComponentResults.savings
           /\ results.monthlyGross = ComponentResults.monthlyGross
           /\ \A r \in Regimes :
                  [results[r] EXCEPT !.totalAllowances = Zero]
                    = [ComponentResults[r] EXCEPT !.totalAllowances = Zero]

\* what the result of regime r accounts for: net pay, tax and the three deductions
PaidOut(r) ==
    Add(Add(results[r].netMonthlyPay, results[r].monthlyPAYE),
        Add(Add(deductions.pension, deductions.nhf), deductions.insurance))

\* C24: for a non-negative monthlyGross and non-negative deductions, in each regime
\* netMonthlyPay + monthlyPAYE + pension + nhf + insurance is within 0.01 of
\* monthlyGross.
C24_PayConservation ==
    (HasResults /\ Le(Zero, monthlyAmount) /\ \A field \in Fields : Le(Zero, deductions[field]))
        => \A r \in Regimes : WithinCent(PaidOut(r), monthlyAmount)

\* a gross with tax and a deduction where net pay and tax are both rounded up from a
\* tie: the difference is a full cent
C24_Witness ==
    /\ HasResults
    /\ Lt(Zero, monthlyAmount)
    /\ \A field \in Fields : Le(Zero, deductions[field])
    /\ \E field \in Fields : Lt(Zero, deductions[field])
    /\ \E r \in Regimes :
           /\ Lt(Zero, results[r].monthlyPAYE)
           /\ Sub(PaidOut(r), monthlyAmount) = Cent

\* C25: for every finite monthlyGross, a negative one included, and every deductions
\* input, annualPAYE >= 0 and monthlyPAYE >= 0 in both regimes and every breakdown line
\* has tax >= 0.
C25_TaxNeverNegative ==
    HasResults =>
        \A r \in Regimes :
            /\ Le(Zero, results[r].annualPAYE)
            /\ Le(Zero, results[r].monthlyPAYE)
            /\ Le(Zero, UnroundedTax(r))
            /\ \A k \in 1..Len(results[r].bracketBreakdown) :
                   Le(Zero, results[r].bracketBreakdown[k].tax)

\* a negative gross with a negative deduction: annual gross less allowances is below 0,
\* taxable income is floored at 0 and no tax is due
C25_Witness ==
    /\ HasResults
    /\ Lt(monthlyAmount, Zero)
    /\ Lt(deductions.pension, Zero)
    /\ \A r \in Regimes :
           /\ Lt(Sub(AnnualGross, UnroundedAllowances(r).totalAllowances), Zero)
           /\ results[r].annualPAYE = Zero
           /\ results[r].monthlyPAYE = Zero
           /\ results[r].bracketBreakdown = <<>>

\* C26: savings.monthly and savings.annual never have strictly opposite signs:
\* savings.monthly < 0 implies savings.annual <= 0 and savings.monthly > 0 implies
\* savings.annual >= 0, so the warning shown when savings.monthly < 0 never contradicts
\* the annual figure.
C26_SavingsSignsAgree ==
    HasResults =>
        /\ Lt(results.savings.monthly, Zero) => Le(results.savings.annual, Zero)
        /\ Lt(Zero, results.savings.monthly) => Le(Zero, results.savings.annual)

\* the warning is shown: the reform costs more by the month and by the year
C26_Witness ==
    /\ HasResults
    /\ Lt(results.savings.monthly, Zero)
    /\ Lt(results.savings.annual, Zero)
    /\ results.savings.monthly = Sub(results.legacy.monthlyPAYE, results.reform.monthlyPAYE)
    /\ results.savings.annual # Times(results.savings.monthly, 12)

----------------------------------------------------------------------------
(* Properties of the component *)

\* C15: every call of calculateResults the component makes has a monthlyGross that is a
\* number and >= 0.
C15_GrossNumericNonNegative ==
    /\ monthlyAmount # NaN
    /\ Le(Zero, monthlyAmount)

IsPrefix(p, q) == Len(p) <= Len(q) /\ SubSeq(q, 1, Len(p)) = p

\* C16 as stated: the scenario list only ever grows by appending at the end: every
\* step leaves the scenarios it had in place, with their results.
C16_ScenariosAppendOnly == [][IsPrefix(scenarios, scenarios')]_vars

\* C16 as amended: a step either appends one scenario at the end, or removes the
\* scenarios of one id (removeScenario), or empties the list (handleClear); the
\* scenarios that stay keep their order and their stored results.
C16_ScenariosAppendedOrRemoved ==
    [][\/ scenarios' = scenarios
       \/ /\ Len(scenarios') = Len(scenarios) + 1
          /\ IsPrefix(scenarios, scenarios')
       \/ \E k \in 1..Len(scenarios) : scenarios' = Filtered(scenarios, scenarios[k].id)
       \/ scenarios' = <<>>]_vars

\* the latest call made a scenario that is no longer in the list, while another
\* scenario, added in another millisecond, is still there with its results
C16_Witness ==
    /\ results # NoResults
    /\ Len(scenarios) = 1
    /\ monthlyAmount # results.monthlyGross
    /\ monthlyAmount # scenarios[1].monthlyGross
    /\ scenarios[1].results
         = ComponentCalculateResults(scenarios[1].monthlyGross, additionalDeductions)

\* C28: after any sequence of calculate, clear, add-quick-scenario, add-custom-scenario
\* and remove-scenario operations, a non-empty scenario list implies that results is
\* not null.
C28_ScenariosNeedResults == scenarios # <<>> => results # NoResults

\* a quick scenario and a custom scenario in the list, next to the baseline they were
\* derived from
C28_Witness ==
    /\ results # NoResults
    /\ Len(scenarios) >= 2
    /\ scenarios[1].label = "Offer"
    /\ scenarios[2].label = "+N100k Bonus"
    /\ scenarios[2].monthlyGross = Add(results.monthlyGross, Naira(100000))

\* C29: no two scenarios of the list share an id, also when two are added within the
\* same millisecond, so that removeScenario(id) removes exactly one scenario.
C29_ScenarioIdsUnique ==
    \A i, j \in 1..Len(scenarios) : i # j => scenarios[i].id # scenarios[j].id

Rejected(amount) == amount = NaN \/ Lt(amount, Zero)

\* C27: a run of handleCalculate on a gross text that is not a number or is negative
\* (after the division by 12 of an annual input) calls calculateResults not at all and
\* leaves results, scenarios, showBreakdown and showScenarios as they were.
C27_RejectedInputKeepsState ==
    [][(attempts' = Append(attempts, EnteredAmount) /\ Rejected(EnteredAmount))
           => UNCHANGED <<results, scenarios, showBreakdown, showScenarios,
                          monthlyAmount, deductions>>]_vars

\* a negative amount was entered and refused after a calculation that was accepted:
\* the results of that calculation, a scenario and both panels are still there
C27_Witness ==
    /\ Len(attempts) = 2
    /\ ~Rejected(attempts[1])
    /\ Rejected(attempts[2])
    /\ results # NoResults
    /\ results.monthlyGross = attempts[1]
    /\ scenarios # <<>>
    /\ showBreakdown
    /\ showScenarios

\* the deductions the model enters
EnteredDeductions == { [NoDeductions EXCEPT !.pension = text] : text \in PensionTexts }

\* what the scenario buttons make of a baseline gross g
DerivedGross(g) ==
    { IF q.fixedAmount # 0 THEN Add(g, Naira(q.fixedAmount))
      ELSE Hundredths(g, 100 + q.changePercent) : q \in QuickScenarios }
    \cup { Hundredths(g, 100 + parseFloat(a).w) : a \in CustomAmounts \ {EmptyText} }
    \cup { Add(g, parseFloat(a)) : a \in CustomAmounts \ {EmptyText} }

\* C30: after any sequence of UI operations every scenario s of the list has s.results
\* = calculateResults(s.monthlyGross, d) for d the deductions that produced the results
\* now displayed, and s.monthlyGross was derived from the displayed results.monthlyGross.
C30_ScenariosMatchBaseline ==
    (results # NoResults /\ scenarios # <<>>) =>
        \E d \in EnteredDeductions :
            /\ results = ComponentCalculateResults(results.monthlyGross, d)
            /\ \A k \in 1..Len(scenarios) :
                   /\ scenarios[k].results
                        = ComponentCalculateResults(scenarios[k].monthlyGross, d)
                   /\ scenarios[k].monthlyGross \in DerivedGross(results.monthlyGross)

----------------------------------------------------------------------------
(* Properties of calculateTaxByBrackets on its own *)

Called == bracketsArg # ""
ArgTable == IF bracketsArg = "reform" THEN ReformTable ELSE LegacyTable

\* max(0, min(T, L_i) - L_(i-1)) with L_0 = 0
AmountInBracket(t, table, i) ==
    MathMax(Zero, Sub(MathMin(t, table[i].limit),
                      IF i = 1 THEN Zero ELSE table[i - 1].limit))

\* the sum over brackets 1..n of rate_i * AmountInBracket
RECURSIVE SumOverBrackets(_, _, _)
SumOverBrackets(t, table, n) ==
    IF n = 0 THEN Zero
    ELSE Add(SumOverBrackets(t, table, n - 1),
             Hundredths(AmountInBracket(t, table, n), table[n].rate))

PositiveBrackets(t, table) ==
    { i \in 1..Len(table) : Lt(Zero, AmountInBracket(t, table, i)) }

\* C18: for each table and every taxable income T >= 0, calculateTaxByBrackets
\* returns tax = the sum over the brackets of rate_i * max(0, min(T, L_i) - L_(i-1)):
\* the early exits skip no bracket with a positive contribution.
C18_ProgressiveAccumulation ==
    Called =>
        taxByBrackets.tax = SumOverBrackets(taxableIncomeArg, ArgTable, Len(ArgTable))

\* a taxable income in the last bracket of the reform table: all six brackets add up
C18_Witness ==
    /\ Called
    /\ taxableIncomeArg = Add(Naira(50000000), Money(123456, 78))
    /\ bracketsArg = "reform"
    /\ Len(taxByBrackets.bracketBreakdown) = 6
    /\ Lt(Zero, taxByBrackets.tax)

\* C20: the breakdown has a line for a bracket exactly when the amount of taxable
\* income in that bracket is > 0: the lines are those brackets in order, each with
\* its amount and rate * amount as tax, so that reform's first bracket is a line with
\* rate 0% and tax 0, and no line has taxableAmount <= 0.
C20_BreakdownInclusion ==
    Called =>
        LET lines == taxByBrackets.bracketBreakdown
            positive == PositiveBrackets(taxableIncomeArg, ArgTable)
        IN  /\ positive = 1..Len(lines)
            /\ \A k \in 1..Len(lines) :
                /\ Lt(Zero, lines[k].taxableAmount)
                /\ lines[k].taxableAmount = AmountInBracket(taxableIncomeArg, ArgTable, k)
                /\ lines[k].tax = Hundredths(lines[k].taxableAmount, ArgTable[k].rate)
                /\ lines[k].rate = toFixed0(ArgTable[k].rate) \o "%"

\* reform's first bracket alone: one line, rate 0%, tax 0
C20_Witness ==
    /\ Called
    /\ bracketsArg = "reform"
    /\ taxableIncomeArg = Naira(800000)
    /\ Len(taxByBrackets.bracketBreakdown) = 1
    /\ taxByBrackets.bracketBreakdown[1].rate = "0%"
    /\ taxByBrackets.bracketBreakdown[1].taxableAmount = Naira(800000)
    /\ taxByBrackets.bracketBreakdown[1].tax = Zero

\* the range texts of the two tables' brackets, in ascending order
LegacyRanges ==
    << "N0 - N300,000", "N300,000 - N600,000", "N600,000 - N1,100,000",
       "N1,100,000 - N1,600,000", "N1,600,000 - N3,200,000", "N3,200,000 - Above" >>
ReformRanges ==
    << "N0 - N800,000", "N800,000 - N3,000,000", "N3,000,000 - N12,000,000",
       "N12,000,000 - N25,000,000", "N25,000,000 - N50,000,000", "N50,000,000 - Above" >>
ArgRanges == IF bracketsArg = "reform" THEN ReformRanges ELSE LegacyRanges

RECURSIVE SumTaxable(_)
SumTaxable(bracketBreakdown) ==
    IF bracketBreakdown = <<>> THEN Zero
    ELSE Add(Head(bracketBreakdown).taxableAmount, SumTaxable(Tail(bracketBreakdown)))

\* C23: for every taxable income T >= 0 the breakdown lines are the first brackets of
\* the table, one line per bracket in ascending order with none left out in between,
\* and their taxableAmount values sum to T exactly.
C23_BreakdownPartitionsTaxable ==
    Called =>
        /\ Len(taxByBrackets.bracketBreakdown) <= Len(ArgTable)
        /\ \A k \in 1..Len(taxByBrackets.bracketBreakdown) :
               /\ taxByBrackets.bracketBreakdown[k].range = ArgRanges[k]
               /\ taxByBrackets.bracketBreakdown[k].rate = toFixed0(ArgTable[k].rate) \o "%"
        /\ SumTaxable(taxByBrackets.bracketBreakdown) = taxableIncomeArg

\* a taxable income with cents in the fourth legacy bracket: four lines, the last one
\* holding the cents
C23_Witness ==
    /\ Called
    /\ bracketsArg = "legacy"
    /\ taxableIncomeArg = Add(Naira(1100000), Money(123456, 78))
    /\ Len(taxByBrackets.bracketBreakdown) = 4
    /\ taxByBrackets.bracketBreakdown[4].taxableAmount = Money(123456, 78)
    /\ taxByBrackets.bracketBreakdown[4].range = "N1,100,000 - N1,600,000"

----------------------------------------------------------------------------
(* Properties of the history of calls *)

CallIndexes == 1..Len(calls)

SameDeductions(i, j) == calls[i].additionalDeductions = calls[j].additionalDeductions
SameGross(i, j) == calls[i].monthlyAmount = calls[j].monthlyAmount
Parsed(i) == calls[i].deductions

\* C4: of two calls with the same deductions, the one with the larger gross has the
\* larger or equal annualPAYE, in both regimes.
C4_AnnualPAYEMonotoneInGross ==
    \A i, j \in CallIndexes :
        (SameDeductions(i, j) /\ Le(calls[i].monthlyAmount, calls[j].monthlyAmount)) =>
            \A r \in Regimes :
                Le(calls[i].results[r].annualPAYE, calls[j].results[r].annualPAYE)

\* a later call with a smaller gross and a strictly smaller tax in both regimes
C4_Witness ==
    \E i, j \in CallIndexes :
        /\ i < j
        /\ SameDeductions(i, j)
        /\ Lt(calls[j].monthlyAmount, calls[i].monthlyAmount)
        /\ \A r \in Regimes :
            Lt(calls[j].results[r].annualPAYE, calls[i].results[r].annualPAYE)

\* C7: two calls with the same monthlyGross and deductions return equal Results,
\* whatever was called before or between them, and the bracket tables never change.
C7_SameInputsSameResults ==
    /\ LEGACY_BRACKETS = LegacyTable
    /\ REFORM_BRACKETS = ReformTable
    /\ \A i, j \in CallIndexes :
        (SameGross(i, j) /\ SameDeductions(i, j)) => calls[i].results = calls[j].results

\* the same call before and after a different one
C7_Witness ==
    /\ Len(calls) = 3
    /\ SameGross(1, 3) /\ SameDeductions(1, 3)
    /\ ~SameGross(1, 2) /\ ~SameDeductions(1, 2)
    /\ calls[1].results = calls[3].results
    /\ calls[2].results # calls[1].results

\* one field of call j is larger than in call i, the other two are equal
OneFieldRaised(i, j) ==
    \E field \in Fields :
        /\ Lt(Parsed(i)[field], Parsed(j)[field])
        /\ \A other \in Fields \ {field} : Parsed(i)[other] = Parsed(j)[other]

NonNegative(i) == \A field \in Fields : Le(Zero, Parsed(i)[field])

\* C8: of two calls with the same gross and non-negative deductions, where one of
\* pension, nhf, insurance is larger in the second and the others are equal, the second
\* has the smaller or equal taxableIncome and netMonthlyPay, in both regimes.
C8_MonotoneInDeductions ==
    \A i, j \in CallIndexes :
        (SameGross(i, j) /\ NonNegative(i) /\ NonNegative(j) /\ OneFieldRaised(i, j)) =>
            \A r \in Regimes :
                /\ Le(calls[j].results[r].taxableIncome, calls[i].results[r].taxableIncome)
                /\ Le(calls[j].results[r].netMonthlyPay, calls[i].results[r].netMonthlyPay)

\* each field raised in some pair of calls, with taxable income and net pay strictly lower
C8_Witness ==
    \E i, j \in CallIndexes :
        /\ SameGross(i, j)
        /\ OneFieldRaised(i, j)
        /\ Lt(Parsed(i).nhf, Parsed(j).nhf)
        /\ Lt(Zero, Parsed(i).pension)
        /\ \A r \in Regimes :
            /\ Lt(calls[j].results[r].taxableIncome, calls[i].results[r].taxableIncome)
            /\ Lt(calls[j].results[r].netMonthlyPay, calls[i].results[r].netMonthlyPay)

====
